---- MODULE Spec2Model ----
(***************************************************************************)
(* A model of the serve utility: the driver loop of serve.c and the        *)
(* supervisor iteration resume() of sessions.c with its helpers            *)
(* (allocproc, addproc, tryrmproc, passprocerror, passio), together with   *)
(* the environment the supervisor observes through system calls: clients   *)
(* connecting to the listener, workers writing to their stderr pipe and    *)
(* terminating, and SIGINT.                                                *)
(*                                                                         *)
(* Each supervisor action is one step between two observations of the      *)
(* environment (one system call that reads shared state, with the code     *)
(* that follows it up to the next one).  Environment actions may happen    *)
(* between any two supervisor steps.                                       *)
(***************************************************************************)
EXTENDS Integers, Sequences, FiniteSets, TLC

(***************************************************************************)
(* Bounds of the model.                                                    *)
(***************************************************************************)
\* Spec: connections that ever arrive at the listener, bytes written to
\* stderr by all workers together.
MaxConn == 3
MaxBytes == 1
\* SpecSig: connections, bytes and SIGINT signals delivered.
SigConn == 2
SigBytes == 1
MaxSig == 2
\* SpecAdmit: connections, bytes and failures to create a pipe.
AdmitConn == 2
AdmitBytes == 1
MaxPipeFail == 1
\* SpecLines: connections and bytes.
LinesConn == 1
LinesBytes == 3

(***************************************************************************)
(* Program constants.                                                      *)
(***************************************************************************)
\* sessions.c:160  static const size_t max_cebuf = 65534
max_cebuf == 65534
\* sessions.c:162,167,174  the headroom and the size of one read
ReadSize == 128
\* sessions.c:45  static int mproc = INT_MAX
INT_MAX == 2147483647
\* sessions.c:262  the poll timeout (ms) at capacity
CapTimeout == 50
\* sessions.c:242  the poll timeout below capacity: infinite
InfTimeout == -1
\* the bytes the code tests for
NUL == 0
LF == 10
\* an indeterminate byte (storage that was never written)
JUNK == -1
\* The bytes workers write in SpecLines: NUL, newline and two letters.
Bytes == {NUL, LF, 97, 98}
\* The bytes workers write in Spec.
FewBytes == {LF, 97}

Min(a, b) == IF a < b THEN a ELSE b

(***************************************************************************)
(* C strings over a buffer.  A buffer is the sequence of the bytes of an   *)
(* allocation that have been written so far (C index k is element k+1);    *)
(* what lies beyond has never been written.                                *)
(***************************************************************************)
Peek(mem, k) == IF k + 1 <= Len(mem) THEN mem[k + 1] ELSE JUNK

\* mem with byte b stored at C index k (k <= Len(mem): the code never skips).
Poke(mem, k, b) ==
    IF k + 1 <= Len(mem) THEN [mem EXCEPT ![k + 1] = b] ELSE Append(mem, b)

\* strchr(mem + off, c) for c # NUL: the C index of the first c at or after
\* off and before the terminating NUL, or -1 (a null pointer).
RECURSIVE strchr(_, _, _)
strchr(mem, off, c) ==
    IF off + 1 > Len(mem) THEN -1
    ELSE IF mem[off + 1] = c THEN off
    ELSE IF mem[off + 1] = NUL THEN -1
    ELSE strchr(mem, off + 1, c)

\* What printf("%s", mem + off) prints: the bytes up to the first NUL.
RECURSIVE cstr(_, _)
cstr(mem, off) ==
    IF off + 1 > Len(mem) \/ mem[off + 1] = NUL THEN <<>>
    ELSE <<mem[off + 1]>> \o cstr(mem, off + 1)

\* memmove(mem + dst, mem + src, cnt) with dst <= src.
memmove(mem, dst, src, cnt) ==
    [k \in 1..Len(mem) |->
        IF k - 1 >= dst /\ k - 1 < dst + cnt
        THEN Peek(mem, src + (k - 1 - dst))
        ELSE mem[k]]

\* The bytes data stored from C index off on, as read(fd, mem + off, n) does.
store(mem, off, data) ==
    [k \in 1..(IF off + Len(data) > Len(mem) THEN off + Len(data) ELSE Len(mem)) |->
        IF k - 1 >= off /\ k - 1 < off + Len(data) THEN data[k - off]
        ELSE Peek(mem, k - 1)]

(***************************************************************************)
(* sessions.c: the statics and the pure helpers.                           *)
(***************************************************************************)
\* A variant of initmaxproc that takes the minimum whatever sysconf returned.
initmaxproc_NoGuard(val, openmax) ==
    LET sysmax == openmax - 2
    IN  IF sysmax < val THEN sysmax ELSE val

\* sessions.c:47-53.  openmax is what sysconf(_SC_OPEN_MAX) returns.
initmaxproc(val, openmax) ==
    LET sysmax == openmax - 2
    IN  IF sysmax > 0 /\ sysmax < val THEN sysmax ELSE val

\* A variant of BelowCap that admits at the cap (<= for <).
BelowCap_AtCap(n, m) == IF m < 0 THEN TRUE ELSE n <= m

\* The comparison nproc < mproc of sessions.c:241: nproc is a size_t and
\* mproc an int, so mproc is converted to size_t; a negative mproc becomes a
\* value above every nproc the model reaches.
BelowCap(n, m) == IF m < 0 THEN TRUE ELSE n < m

\* A variant of propagateacceptfailure that swallows two errors only.
propagateacceptfailure_NoEmfile(error) ==
    error # "ECONNABORTED" /\ error # "EINTR"

\* sessions.c:193-196
propagateacceptfailure(error) ==
    error # "ECONNABORTED" /\ error # "EINTR" /\ error # "EMFILE"

\* A variant of Status that reports progress whether or not there was any.
Status_AlwaysSome(act, serr) ==
    IF serr # "" THEN (IF propagateacceptfailure(serr) THEN "ERROR" ELSE "SOME")
    ELSE "SOME"

\* sessions.c:271-275: the status resume returns after forwarding.
Status(act, serr) ==
    IF serr # "" THEN (IF propagateacceptfailure(serr) THEN "ERROR" ELSE "SOME")
    ELSE IF act THEN "SOME" ELSE "NONE"

\* sessions.c:74-80 for a 32-bit size_t (SIZE_MAX = 4294967295,
\* sizeof (ProcessData) = 16, sizeof (struct pollfd) = 8): the new capacity.
SizeMaxHalf == 2147483647
MaxProcElems == 268435454
MaxPollElems == 536870909
newcapacity(c) ==
    LET ns0 == IF c = 0 THEN 1
               ELSE IF c >= SizeMaxHalf THEN SizeMaxHalf ELSE 2 * c
        ns1 == IF c >= SizeMaxHalf \/ ns0 >= MaxProcElems + 1
               THEN MaxProcElems ELSE ns0
    IN  IF ns1 >= MaxPollElems + 1 THEN MaxPollElems ELSE ns1

\* A poll slot whose revents was never written.
Uninit == {"?"}
\* What an indeterminate revents can hold, as far as passio tells apart
\* (sessions.c:200,206): POLLERR set; POLLIN set without POLLERR; neither.
Indeterminate == {{}, {"POLLIN"}, {"POLLERR"}}

\* allocproc storing the new capacity before the poll vector is reallocated.
allocproc_CprocFirst(n, c, f, realloc1, realloc2) ==
    IF n < c THEN [fail |-> FALSE, cproc |-> c, fds |-> f, errno |-> ""]
    ELSE LET ns == newcapacity(c)
         IN  IF ns <= c \/ ~realloc1
             THEN [fail |-> TRUE, cproc |-> c, fds |-> f, errno |-> "ENOMEM"]
             ELSE IF ~realloc2
             THEN [fail |-> TRUE, cproc |-> ns, fds |-> f, errno |-> "ENOMEM"]
             ELSE [fail |-> FALSE, cproc |-> ns, errno |-> "",
                   fds |-> [k \in 1..(ns + 1) |->
                              IF k <= Len(f) THEN f[k]
                              ELSE [fd |-> JUNK, events |-> {}, revents |-> Uninit]]]

\* sessions.c:70-95 on the poll vector f (f[k+1] is fds[k]).  realloc1 and
\* realloc2 tell whether the two reallocations succeed.
allocproc(n, c, f, realloc1, realloc2) ==
    IF n < c THEN [fail |-> FALSE, cproc |-> c, fds |-> f, errno |-> ""]
    ELSE LET ns == newcapacity(c)
         IN  IF ns <= c \/ ~realloc1 \/ ~realloc2
             THEN [fail |-> TRUE, cproc |-> c, fds |-> f, errno |-> "ENOMEM"]
             ELSE [fail |-> FALSE, cproc |-> ns, errno |-> "",
                   fds |-> [k \in 1..(ns + 1) |->
                              IF k <= Len(f) THEN f[k]
                              ELSE [fd |-> JUNK, events |-> {}, revents |-> Uninit]]]

\* sessions.c:72-86 on the worker array: the number of records it has room
\* for after the call, room being what it had room for before.  The array
\* is reallocated first, so it keeps its new size when the reallocation of
\* the poll vector fails afterwards.
allocprocroom(n, c, room, realloc1) ==
    IF n < c THEN room
    ELSE LET ns == newcapacity(c)
         IN  IF ns <= c \/ ~realloc1 THEN room ELSE ns

\* A worker record as addproc installs it (sessions.c:122-123).  ebuf is the
\* written part of the allocation, asize the bytes allocated (0: ebuf is NULL).
NewProc(pid) == [pid |-> pid, ebuf |-> <<>>, asize |-> 0, nebuf |-> 0, cebuf |-> 0]

\* sessions.c:121-127 in the parent: the record and the poll slot of the new
\* worker.  rv is what the slot's revents holds if it was never written.
addproc(procs, f, n, pid, rfd, rv) ==
    [processes |-> Append(procs, NewProc(pid)),
     fds |-> [f EXCEPT ![n + 2] =
                [fd |-> rfd, events |-> {"POLLIN"},
                 revents |-> IF f[n + 2].revents = Uninit THEN rv
                             ELSE f[n + 2].revents]],
     nproc |-> n + 1,
     out |-> <<[ch |-> "stdout", kind |-> "created", text |-> <<>>]>>]

\* A variant of tryrmproc that prints the exit message before it flushes the
\* residual line.
tryrmproc_ExitFirst(procs, f, n, p) ==
    [processes |-> [k \in 1..(n - 1) |-> IF k = p + 1 THEN procs[n] ELSE procs[k]],
     fds |-> [f EXCEPT ![p + 2] = f[n + 1]],
     nproc |-> n - 1,
     closed |-> f[p + 2].fd,
     out |-> <<[ch |-> "stdout", kind |-> "exited", text |-> <<>>]>>
             \o (IF procs[p + 1].nebuf > 0
                 THEN <<[ch |-> "stderr", kind |-> "line",
                         text |-> cstr(procs[p + 1].ebuf, 0)]>>
                 ELSE <<>>)]

\* A variant of tryrmproc that moves the last record but not its poll slot.
tryrmproc_SlotKept(procs, f, n, p) ==
    [processes |-> [k \in 1..(n - 1) |-> IF k = p + 1 THEN procs[n] ELSE procs[k]],
     fds |-> f,
     nproc |-> n - 1,
     closed |-> f[p + 2].fd,
     out |-> (IF procs[p + 1].nebuf > 0
              THEN <<[ch |-> "stderr", kind |-> "line",
                      text |-> cstr(procs[p + 1].ebuf, 0)]>>
              ELSE <<>>)
             \o <<[ch |-> "stdout", kind |-> "exited", text |-> <<>>]>>]

\* sessions.c:143-153: the output of a successful tryrmproc(p), the
\* descriptor it closes and the table after it.
tryrmproc(procs, f, n, p) ==
    [processes |-> [k \in 1..(n - 1) |-> IF k = p + 1 THEN procs[n] ELSE procs[k]],
     fds |-> [f EXCEPT ![p + 2] = f[n + 1]],
     nproc |-> n - 1,
     closed |-> f[p + 2].fd,
     out |-> (IF procs[p + 1].nebuf > 0
              THEN <<[ch |-> "stderr", kind |-> "line",
                      text |-> cstr(procs[p + 1].ebuf, 0)]>>
              ELSE <<>>)
             \o <<[ch |-> "stdout", kind |-> "exited", text |-> <<>>]>>]

\* growebuf testing the bytes buffered against the whole of max_cebuf.
growebuf_WholeCap(proc, reallocok) ==
    IF proc.nebuf + ReadSize > proc.cebuf
    THEN IF proc.nebuf > max_cebuf
         THEN [fail |-> TRUE, proc |-> proc, errno |-> "ENOMEM"]
         ELSE LET p1 == [proc EXCEPT !.cebuf = proc.nebuf + ReadSize]
              IN  IF reallocok
                  THEN [fail |-> FALSE, errno |-> "",
                        proc |-> [p1 EXCEPT !.asize = p1.cebuf + 1]]
                  ELSE [fail |-> TRUE, proc |-> p1, errno |-> "ENOMEM"]
    ELSE [fail |-> FALSE, proc |-> proc, errno |-> ""]

\* sessions.c:162-172: make room for one read.
growebuf(proc, reallocok) ==
    IF proc.nebuf + ReadSize > proc.cebuf
    THEN IF proc.nebuf > max_cebuf - ReadSize
         THEN [fail |-> TRUE, proc |-> proc, errno |-> "ENOMEM"]
         ELSE LET p1 == [proc EXCEPT !.cebuf = proc.nebuf + ReadSize]
              IN  IF reallocok
                  THEN [fail |-> FALSE, errno |-> "",
                        proc |-> [p1 EXCEPT !.asize = p1.cebuf + 1]]
                  ELSE [fail |-> TRUE, proc |-> p1, errno |-> "ENOMEM"]
    ELSE [fail |-> FALSE, proc |-> proc, errno |-> ""]

\* sessions.c:180-186: emit the lines that end at lf and after.
RECURSIVE splitlines(_, _, _)
splitlines(proc, lf, out) ==
    IF lf < 0 THEN [proc |-> proc, out |-> out]
    ELSE LET mem1 == Poke(proc.ebuf, lf, NUL)
             n1 == proc.nebuf - (lf + 1)
             mem2 == memmove(mem1, 0, lf + 1, n1 + 1)
         IN  splitlines([proc EXCEPT !.ebuf = mem2, !.nebuf = n1],
                        strchr(mem2, 0, LF),
                        Append(out, [ch |-> "stdout", kind |-> "line",
                                     text |-> cstr(mem1, 0)]))

\* A variant of intake that leaves out the terminator (resume[n] = 0).
intake_NoTerminator(proc, data) ==
    LET off == proc.nebuf
        mem1 == store(proc.ebuf, off, data)
    IN  splitlines([proc EXCEPT !.ebuf = mem1, !.nebuf = off + Len(data)],
                   strchr(mem1, off, LF), <<>>)

\* sessions.c:173-187 once read returned the bytes data.
intake(proc, data) ==
    LET off == proc.nebuf
        mem1 == Poke(store(proc.ebuf, off, data), off + Len(data), NUL)
    IN  splitlines([proc EXCEPT !.ebuf = mem1, !.nebuf = off + Len(data)],
                   strchr(mem1, off, LF), <<>>)

(***************************************************************************)
(* The state.                                                              *)
(***************************************************************************)
VARIABLES
    \* serve.c
    pc,         \* where the supervisor is: "loop" (the test of serve.c:48),
                \* "reap", "poll" (inside poll), "accept", "forward",
                \* "read" (inside read), or ended: "exited", "killed",
                \* "crashed"
    done,       \* serve.c:27
    sigdisp,    \* the disposition of SIGINT: "handler" or "default"
    r,          \* serve.c:49, "" outside its scope
    \* sessions.c statics
    setup,      \* sessions.c:222
    mproc, nproc, cproc,
    processes,  \* the records 0..nproc-1 (processes[k+1] is record k)
    fds,        \* the poll vector (fds[k+1] is slot k), <<>> before setup
    \* locals of resume
    i, nevents, sockerr, action,
    timeout,    \* the timeout of the poll of this iteration
    \* the environment
    pending,    \* connections waiting in the listener's backlog
    connleft,   \* connections still to arrive
    bytesleft,  \* bytes the workers may still write
    pipesleft,  \* creations of a pipe that may still fail
    child,      \* per pid: its state, its pipe, all it wrote (history)
    nsig,       \* SIGINTs delivered so far
    sigleft,    \* SIGINTs still to be delivered
    eintr,      \* a handler ran while the supervisor was in poll or read
    openfds,    \* the descriptors open in the supervisor, the standard
                \* streams apart
    \* observation
    log,        \* per pid: what the supervisor printed about it, in order
    pollin,     \* pids for which the poll of this iteration reported POLLIN
    iter,       \* what this iteration of resume did so far
    \* calls of the functions that run outside the loop
    call,       \* the function called and its arguments
    ret,        \* what it returned
    \* the C library
    atexit      \* the functions resume registered with atexit(), in order

vars == <<pc, done, sigdisp, r, setup, mproc, nproc, cproc, processes, fds,
          i, nevents, sockerr, action, timeout, pending, connleft, bytesleft, pipesleft, child,
          nsig, sigleft, eintr, openfds, log, pollin, iter, call, ret, atexit>>

Pids == 1..(IF MaxConn > LinesConn THEN MaxConn ELSE LinesConn)
Listener == 0
NoChild == [st |-> "unborn", pipe |-> <<>>, written |-> <<>>]
\* The descriptors an admission opens for worker pid: the two ends of its
\* stderr pipe (sessions.c:100) and the connection socket (sessions.c:246).
RdEnd(pid) == pid
WrEnd(pid) == 100 + pid
Sock(pid) == 200 + pid
\* Nothing has happened in this iteration; no call outside the loop.  While
\* the sweep runs, start and dead are the workers in the table and those of
\* them already terminated when it began, and probed the workers waitpid was
\* called on, in order; poll is the errno of the poll of the iteration if it
\* failed; failed is the first call of addproc that failed, callerrno the
\* errno of that call and errno the errno resume returned ERROR with for it.
NoIter ==
    [accepted |-> FALSE, reaped |-> FALSE, emitted |-> FALSE, diag |-> {},
     start |-> {}, dead |-> {}, probed |-> <<>>, poll |-> "",
     failed |-> "", callerrno |-> "", errno |-> ""]
NoCall == [f |-> "none"]

\* qualfd.c:208-222 nbpipe for worker pid: what it returns, the array fd
\* (fd[1] the read end, fd[2] the write end) and the descriptors it leaves
\* open, the ends it made nonblocking and errno on return.  When pipe()
\* fails the array was never written: its values are indeterminate (here:
\* negative, or numbers of no open descriptor).  When fcntl fails on the
\* write end, errno is saved, both ends are closed and errno is restored.
PipeOutcomes == {"ok", "pipe", "pipejunk", "fcntl"}

\* errno after calls of close made with errno = e: a close that fails sets
\* it (closeok tells whether they all succeed).
closes(e, closeok) == IF closeok THEN e ELSE "EIO"

\* qualfd.c:208-221 step by step: the array after pipe(), the descriptors
\* open then and at the end, the ends made nonblocking, errno saved when
\* fcntl failed (err) and errno after the two closes (afterclose).
nbpipesteps(pid, how, closeok) ==
    LET pipeok == how \in {"ok", "fcntl"}
        fildes == IF how = "pipejunk" THEN <<JUNK, JUNK>>
                  ELSE <<RdEnd(pid), WrEnd(pid)>>
        piped == IF pipeok THEN {fildes[1], fildes[2]} ELSE {}
        flagged == pipeok /\ how # "fcntl"
        err == IF pipeok THEN "EPERM" ELSE "EMFILE"
    IN  [ret |-> ~pipeok \/ ~flagged,
         fd |-> fildes,
         opened |-> IF pipeok /\ ~flagged THEN piped \ {fildes[1], fildes[2]}
                    ELSE piped,
         nonblock |-> IF flagged THEN {fildes[2]} ELSE {},
         err |-> IF flagged THEN "" ELSE err,
         afterclose |-> IF flagged THEN ""
                        ELSE IF pipeok THEN closes(err, closeok) ELSE err]

\* A variant of nbpipe that does not restore errno after its closes.
nbpipe_NoRestore(pid, how, closeok) ==
    LET n == nbpipesteps(pid, how, closeok)
    IN  [ret |-> n.ret, fd |-> n.fd, opened |-> n.opened,
         nonblock |-> n.nonblock, errno |-> n.afterclose]

nbpipe(pid, how, closeok) ==
    LET n == nbpipesteps(pid, how, closeok)
    IN  [ret |-> n.ret, fd |-> n.fd, opened |-> n.opened,
         nonblock |-> n.nonblock, errno |-> n.err]

\* sessions.c:100  nbpipe(fd) < 0: the bool nbpipe returns, converted to int.
nbpipefailed(b) == (IF b THEN 1 ELSE 0) < 0

\* sessions.c:100-133: the descriptors open after addproc, from those open
\* when nbpipe has returned: nothing is closed when the failure of nbpipe is
\* detected, both ends are closed at cleanup_pipe, the write end alone on
\* success.
addprocfds(open, fd, detected, failed) ==
    IF detected THEN open
    ELSE IF failed THEN open \ {fd[1], fd[2]}
    ELSE open \ {fd[2]}

\* sessions.c:130-133 with 249-253: errno when resume returns after addproc
\* went through cleanup_pipe with errno = e: the two closes of cleanup_pipe
\* come before resume saves errno around its own free and close.
cleanup_pipe(e, closeok) == closes(e, closeok)

\* A variant of admitfds in which the parent closes nothing.
admitfds_NoClose(open, pid, nb, detected, failed) ==
    open \cup {Sock(pid)} \cup nb.opened

\* sessions.c:246-257: the descriptors open after the accept of a connection
\* and addproc, whatever addproc returned: resume closes the socket.
admitfds(open, pid, nb, detected, failed) ==
    addprocfds(open \cup {Sock(pid)} \cup nb.opened, nb.fd, detected, failed)
        \ {Sock(pid)}

\* Caps a caller may ask for and values of sysconf(_SC_OPEN_MAX).
ReqCaps == {-1, 0, 1, 2}
OpenMaxes == {3, 20}

\* The state after init() and confsig() (serve.c:46-47), for a cap and an
\* environment that will produce conn connections, bytes bytes, sig signals
\* and pipes failures to create a pipe.
Start(cap, conn, bytes, sig, pipes) ==
    /\ pc = "loop"
    /\ done = 0
    /\ sigdisp = "handler"
    /\ r = ""
    /\ setup = FALSE
    /\ mproc = cap
    /\ nproc = 0
    /\ cproc = 0
    /\ processes = <<>>
    /\ fds = <<>>
    /\ i = 0
    /\ nevents = 0
    /\ sockerr = ""
    /\ action = FALSE
    /\ timeout = InfTimeout
    /\ pending = 0
    /\ connleft = conn
    /\ bytesleft = bytes
    /\ pipesleft = pipes
    /\ child = [p \in Pids |-> NoChild]
    /\ nsig = 0
    /\ sigleft = sig
    /\ eintr = FALSE
    /\ openfds = {Listener}
    /\ log = [p \in Pids |-> <<>>]
    /\ pollin = {}
    /\ iter = NoIter
    /\ ret = NoCall
    /\ atexit = <<>>

\* Spec: a caller has set the cap with initmaxproc.
Init ==
    \E v \in ReqCaps, o \in OpenMaxes :
        Start(initmaxproc(v, o), MaxConn, MaxBytes, 0, 0) /\ call = NoCall

\* SpecSig and SpecAdmit: the program as it is, where nothing calls
\* initmaxproc and the cap is the initial value of mproc (sessions.c:45).
InitSig == Start(INT_MAX, SigConn, SigBytes, MaxSig, 0) /\ call = NoCall

\* SpecSigCap: the same under a cap of one worker, as initmaxproc(1) sets it.
InitSigCap ==
    Start(initmaxproc(1, INT_MAX), SigConn, SigBytes, MaxSig, 0) /\ call = NoCall
InitAdmit ==
    Start(INT_MAX, AdmitConn, AdmitBytes, 0, MaxPipeFail) /\ call = NoCall

\* SpecLines: the same, with the bytes of SpecLines.
InitLines == Start(INT_MAX, LinesConn, LinesBytes, 0, 0) /\ call = NoCall

Alive == pc \notin {"exited", "killed", "crashed"}

(***************************************************************************)
(* The environment.                                                        *)
(***************************************************************************)
\* A client connects to the listener.
Connect ==
    /\ Alive
    /\ connleft > 0
    /\ connleft' = connleft - 1
    /\ pending' = pending + 1
    /\ UNCHANGED <<pc, done, sigdisp, r, setup, mproc, nproc, cproc, processes,
                   fds, i, nevents, sockerr, action, timeout, bytesleft, pipesleft, child,
                   nsig, sigleft, eintr, openfds, log, pollin,
                   iter, call, ret, atexit>>

\* A worker writes one byte to its stderr, if that is its pipe (without one
\* its stderr is the supervisor's own).
Write(p, b) ==
    /\ Alive
    /\ child[p].st = "running"
    /\ RdEnd(p) \in openfds
    /\ bytesleft > 0
    /\ bytesleft' = bytesleft - 1
    /\ child' = [child EXCEPT ![p].pipe = Append(@, b),
                              ![p].written = Append(@, b)]
    /\ UNCHANGED <<pc, done, sigdisp, r, setup, mproc, nproc, cproc, processes,
                   fds, i, nevents, sockerr, action, timeout, pending, connleft,
                   pipesleft, nsig, sigleft, eintr, openfds, log, pollin,
                   iter, call, ret, atexit>>

\* A worker terminates: the write end of its pipe is closed.
Exit(p) ==
    /\ Alive
    /\ child[p].st = "running"
    /\ child' = [child EXCEPT ![p].st = "zombie"]
    /\ UNCHANGED <<pc, done, sigdisp, r, setup, mproc, nproc, cproc, processes,
                   fds, i, nevents, sockerr, action, timeout, pending, connleft,
                   bytesleft, pipesleft, nsig, sigleft, eintr, openfds, log, pollin,
                   iter, call, ret, atexit>>

\* A variant of the handler installed without SA_RESETHAND.
interrupt_NoReset(d, disp) ==
    [done |-> 1, sigdisp |-> disp, killed |-> FALSE]

\* serve.c:29-42: SIGINT is delivered.  The handler was installed with
\* SA_RESETHAND and without SA_RESTART.
interrupt(d, disp) ==
    IF disp = "handler" THEN [done |-> 1, sigdisp |-> "default", killed |-> FALSE]
    ELSE [done |-> d, sigdisp |-> disp, killed |-> TRUE]

Sigint ==
    /\ Alive
    /\ sigleft > 0
    /\ sigleft' = sigleft - 1
    /\ nsig' = nsig + 1
    /\ LET h == interrupt(done, sigdisp)
       IN  /\ done' = h.done
           /\ sigdisp' = h.sigdisp
           /\ pc' = IF h.killed THEN "killed" ELSE pc
           /\ eintr' = IF h.killed THEN eintr ELSE pc \in {"poll", "read"}
    /\ UNCHANGED <<r, setup, mproc, nproc, cproc, processes, fds, i, nevents,
                   sockerr, action, timeout, pending, connleft, bytesleft, pipesleft, child,
                   openfds, log, pollin, iter, call, ret, atexit>>

(***************************************************************************)
(* The supervisor.                                                         *)
(***************************************************************************)
\* A variant of LoopLeft in which an iteration that failed ends the loop.
LoopLeft_OnError(d) == d # 0 \/ r = "ERROR"

\* serve.c:48  while (!done): the loop is left.
LoopLeft(d) == d # 0

\* The values of enum status (sessions.h): ERROR is negative, NONE is zero
\* and SOME positive.
StatusValue(status) ==
    CASE status = "ERROR" -> 0 - 1
      [] status = "NONE" -> 0
      [] status = "SOME" -> 1

\* serve.c:50-53: what the driver does with the status r of an iteration.
Driver(status) ==
    [perror |-> StatusValue(status) < 0, yield |-> StatusValue(status) <= 0]
\* sessions.c:55-61: the descriptors cleanupprocesses closes and the workers
\* whose ebuf it frees, in order, and the descriptors open after it.
cleanupprocesses(procs, f, n, open) ==
    [closed |-> [k \in 1..n |-> f[k + 1].fd],
     freed |-> [k \in 1..n |-> procs[k].pid],
     open |-> open \ {f[k + 1].fd : k \in 1..n}]

\* The return of main (serve.c:55): exit runs the functions registered with
\* atexit, the last registered first.  reg holds the registrations of
\* sessions.c:228, each of which runs cleanup (sessions.c:63-68); the
\* cleanup of command.c (50-55), registered before the loop (command.c:416),
\* runs last and closes the listener.
RECURSIVE exit(_, _, _, _, _)
exit(reg, procs, f, n, open) ==
    IF reg = <<>>
    THEN [closed |-> <<Listener>>, freed |-> <<>>, open |-> open \ {Listener}]
    ELSE LET c == cleanupprocesses(procs, f, n, open)
             rest == exit(SubSeq(reg, 1, Len(reg) - 1), procs, f, n, c.open)
         IN  [closed |-> c.closed \o rest.closed,
              freed |-> c.freed \o rest.freed,
              open |-> rest.open]

\* resume whose setup never sets its flag.
setupresume_NoFlag(isset, f, reg, mallocok) ==
    IF isset THEN [fail |-> FALSE, setup |-> TRUE, fds |-> f, atexit |-> reg]
    ELSE IF ~mallocok
    THEN [fail |-> TRUE, setup |-> FALSE, fds |-> f, atexit |-> reg]
    ELSE [fail |-> FALSE, setup |-> FALSE,
          fds |-> <<[fd |-> Listener, events |-> {"POLLIN"}, revents |-> Uninit]>>,
          atexit |-> Append(reg, "cleanup")]

\* sessions.c:222-231: the one-time setup at the head of resume.  isset is
\* the static flag, f the poll vector, reg the functions registered with
\* atexit; mallocok tells whether the allocation of the poll vector
\* succeeds, if it is made.
setupresume(isset, f, reg, mallocok) ==
    IF isset THEN [fail |-> FALSE, setup |-> TRUE, fds |-> f, atexit |-> reg]
    ELSE IF ~mallocok
    THEN [fail |-> TRUE, setup |-> FALSE, fds |-> f, atexit |-> reg]
    ELSE [fail |-> FALSE, setup |-> TRUE,
          fds |-> <<[fd |-> Listener, events |-> {"POLLIN"}, revents |-> Uninit]>>,
          atexit |-> Append(reg, "cleanup")]

\* serve.c:48-55 with the entry into resume, sessions.c:220-230.
Loop ==
    /\ pc = "loop"
    /\ IF LoopLeft(done)
       THEN /\ pc' = "exited"
            /\ r' = ""
            /\ openfds' = exit(atexit, processes, fds, nproc, openfds).open
            /\ UNCHANGED <<setup, fds, i, nevents, sockerr, action, timeout,
                           pollin, iter, atexit>>
       ELSE \E mallocok \in BOOLEAN :
              LET s == setupresume(setup, fds, atexit, mallocok)
              IN  IF s.fail
                  THEN /\ pc' = "loop"
                       /\ r' = "ERROR"
                       /\ iter' = NoIter
                       /\ UNCHANGED <<setup, fds, i, nevents, sockerr, action,
                                      timeout, pollin, atexit, openfds>>
                  ELSE /\ pc' = "reap"
                       /\ r' = ""
                       /\ iter' = [NoIter EXCEPT
                                     !.start = {processes[k].pid : k \in 1..nproc},
                                     !.dead = {processes[k].pid :
                                                 k \in {j \in 1..nproc :
                                                     child[processes[j].pid].st = "zombie"}}]
                       /\ setup' = s.setup
                       /\ fds' = s.fds
                       /\ atexit' = s.atexit
                       /\ i' = 0
                       /\ nevents' = 0
                       /\ sockerr' = ""
                       /\ action' = FALSE
                       /\ timeout' = InfTimeout
                       /\ pollin' = {}
                       /\ openfds' = openfds
    /\ UNCHANGED <<done, sigdisp, mproc, nproc, cproc, processes, pending,
                   connleft, bytesleft, pipesleft, child, nsig, sigleft, eintr,
                   log, call, ret>>

\* A variant of SweepNext that advances after a removal too.
SweepNext_Advance(idx, removed) == idx + 1

\* sessions.c:233-236: the index the sweep goes on with after tryrmproc(idx).
SweepNext(idx, removed) == IF removed THEN idx ELSE idx + 1

\* sessions.c:232-241: one turn of the reap sweep, and after it the choice
\* of the poll and the entry into it.
Reap ==
    /\ pc = "reap"
    /\ IF i < nproc
       THEN LET p == processes[i + 1].pid
            IN  IF child[p].st = "zombie"
                THEN LET t == tryrmproc(processes, fds, nproc, i)
                     IN  /\ processes' = t.processes
                         /\ fds' = t.fds
                         /\ nproc' = t.nproc
                         /\ openfds' = openfds \ {t.closed}
                         /\ log' = [log EXCEPT ![p] = @ \o t.out]
                         /\ child' = [child EXCEPT ![p].st = "reaped"]
                         /\ iter' = [iter EXCEPT !.reaped = TRUE,
                                                  !.probed = Append(@, p)]
                         /\ i' = SweepNext(i, TRUE)
                         /\ UNCHANGED <<pc, timeout>>
                ELSE /\ i' = SweepNext(i, FALSE)
                     /\ iter' = [iter EXCEPT !.probed = Append(@, p)]
                     /\ UNCHANGED <<pc, processes, fds, nproc, openfds, log,
                                    child, timeout>>
       ELSE /\ pc' = "poll"
            /\ timeout' = IF BelowCap(nproc, mproc) THEN InfTimeout ELSE CapTimeout
            /\ iter' = [iter EXCEPT !.start = {}, !.dead = {}, !.probed = <<>>]
            /\ UNCHANGED <<i, processes, fds, nproc, openfds, log, child>>
    /\ UNCHANGED <<done, sigdisp, r, setup, mproc, cproc, nevents, sockerr,
                   action, pending, connleft, bytesleft, pipesleft, nsig, sigleft, eintr,
                   pollin, call, ret, atexit>>

\* What poll reports for descriptor q of a worker slot: the state of the
\* pipe if q is an open read end; POLLNVAL if q is no open descriptor;
\* nothing if q is negative (poll skips the slot).  At the end of file (the
\* pipe empty, the worker ended) every system reports POLLHUP, and those
\* for which eofin holds report POLLIN with it, a read not blocking there.
PipeEvents(q, eofin) ==
    IF q \in openfds
    THEN (IF child[q].pipe # <<>> THEN {"POLLIN"} ELSE {})
         \cup (IF child[q].st # "running" THEN {"POLLHUP"} ELSE {})
         \cup (IF child[q].pipe = <<>> /\ child[q].st # "running" /\ eofin
               THEN {"POLLIN"} ELSE {})
    ELSE IF q < 0 THEN {} ELSE {"POLLNVAL"}

\* What poll reports for slot k; e is the slot reporting POLLERR, 0 for none.
SlotEvents(k, e, eofin) ==
    IF k = 0 THEN (IF pending > 0 THEN {"POLLIN"} ELSE {})
    ELSE PipeEvents(fds[k + 1].fd, eofin)
         \cup (IF e = k /\ fds[k + 1].fd \in openfds THEN {"POLLERR"} ELSE {})

\* The slots the poll of this iteration covers (sessions.c:242,262).
Polled == (IF timeout = InfTimeout THEN 0 ELSE 1)..nproc

\* The poll would return without a signal and without failing.
PollReady == timeout # InfTimeout \/ \E k \in Polled : SlotEvents(k, 0, FALSE) # {}

\* A variant of PollFailure that reports every failure of poll.
PollFailure_AlwaysError(errno) == "ERROR"

\* sessions.c:243,263: what resume returns when poll failed with errno.
PollFailure(errno) == IF errno = "EINTR" THEN "NONE" ELSE "ERROR"

\* sessions.c:242-244,262-263,266: poll returns.
Poll ==
    /\ pc = "poll"
    /\ eintr' = FALSE
    /\ \E res \in {"events", "EINTR", "fail"}, e \in 0..nproc, eofin \in BOOLEAN :
         LET n == Cardinality({k \in Polled : SlotEvents(k, e, eofin) # {}})
         IN  CASE res = "EINTR" ->
                    /\ eintr /\ e = 0
                    /\ pc' = "loop" /\ r' = PollFailure("EINTR")
                    /\ iter' = [iter EXCEPT !.poll = "EINTR"]
                    /\ UNCHANGED <<fds, nevents, pollin, i>>
               [] res = "fail" ->
                    /\ e = 0
                    /\ pc' = "loop" /\ r' = PollFailure("EINVAL")
                    /\ iter' = [iter EXCEPT !.poll = "EINVAL"]
                    /\ UNCHANGED <<fds, nevents, pollin, i>>
               [] res = "events" ->
                    /\ n > 0 \/ timeout # InfTimeout
                    /\ UNCHANGED iter
                    /\ e = 0 \/ fds[e + 1].fd \in openfds
                    /\ fds' = [k \in 1..Len(fds) |->
                                 IF (k - 1) \in Polled
                                 THEN [fds[k] EXCEPT !.revents = SlotEvents(k - 1, e, eofin)]
                                 ELSE fds[k]]
                    /\ nevents' = n
                    /\ pollin' = {fds[k + 1].fd :
                                    k \in {j \in Polled \ {0} : "POLLIN" \in SlotEvents(j, e, eofin)}}
                    /\ i' = 0
                    /\ IF timeout = InfTimeout /\ "POLLIN" \in SlotEvents(0, e, eofin)
                       THEN pc' = "accept" /\ r' = r
                       ELSE IF n # 0 /\ nproc > 0
                            THEN pc' = "forward" /\ r' = r
                            ELSE pc' = "loop" /\ r' = Status(action, sockerr)
    /\ UNCHANGED <<done, sigdisp, setup, mproc, nproc, cproc, processes, sockerr,
                   action, timeout, pending, connleft, bytesleft, pipesleft, child, nsig,
                   sigleft, openfds, log, call, ret, atexit>>

\* The errors accept_remote fails with in the model: the three the filter
\* swallows and one it propagates (remote.c: a failed allocation of the
\* address string, after which the connection is closed).
AcceptErrnos == {"ECONNABORTED", "EINTR", "EMFILE", "ENOMEM"}

NextPid == 1 + Cardinality({p \in Pids : child[p].st # "unborn"})

\* sessions.c:244-261 with addproc, sessions.c:97-134.
Accept ==
    /\ pc = "accept"
    /\ pending > 0
    /\ \/ \E e \in AcceptErrnos :
            /\ sockerr' = e
            /\ pending' = IF e \in {"ECONNABORTED", "ENOMEM"} THEN pending - 1 ELSE pending
            /\ i' = 0
            /\ IF nproc > 0
               THEN pc' = "forward" /\ r' = r
               ELSE pc' = "loop" /\ r' = Status(action, e)
            /\ UNCHANGED <<nproc, cproc, processes, fds, nevents, action, child,
                           openfds, log, iter, pipesleft>>
       \/ \E failure \in {"none", "realloc1", "realloc2", "fork"},
             how \in PipeOutcomes, rv \in Indeterminate, closeok \in BOOLEAN :
            LET pid == NextPid
                nb == nbpipe(pid, how, closeok)
                detected == nbpipefailed(nb.ret)
                a == allocproc(nproc, cproc, fds, failure # "realloc1", failure # "realloc2")
                failed == detected \/ a.fail \/ failure = "fork"
                w == addproc(processes, a.fds, nproc, pid, nb.fd[1], rv)
                first == IF nb.ret THEN "nbpipe"
                         ELSE IF a.fail THEN "allocproc"
                         ELSE IF failure = "fork" THEN "fork" ELSE ""
                callerrno == IF nb.ret THEN nb.errno
                             ELSE IF a.fail THEN a.errno
                             ELSE IF failure = "fork" THEN "EAGAIN" ELSE ""
                last == IF a.fail THEN a.errno ELSE "EAGAIN"
            IN  /\ how # "ok" => pipesleft > 0
                /\ ~closeok => (how = "fcntl" \/ (failed /\ ~detected))
                /\ pipesleft' = IF how = "ok" THEN pipesleft ELSE pipesleft - 1
                /\ pending' = pending - 1
                /\ i' = 0
                /\ openfds' = admitfds(openfds, pid, nb, detected, failed)
                /\ IF failed
                   THEN /\ cproc' = IF detected THEN cproc ELSE a.cproc
                        /\ fds' = IF detected THEN fds ELSE a.fds
                        /\ pc' = "loop" /\ r' = "ERROR"
                        /\ iter' = [iter EXCEPT
                                      !.failed = first, !.callerrno = callerrno,
                                      !.errno = IF detected THEN nb.errno
                                                ELSE cleanup_pipe(last, closeok)]
                        /\ UNCHANGED <<nproc, processes, nevents, action, child,
                                       log, sockerr>>
                   ELSE /\ cproc' = a.cproc
                        /\ fds' = w.fds
                        /\ processes' = w.processes
                        /\ nproc' = w.nproc
                        /\ log' = [log EXCEPT ![pid] = @ \o w.out]
                        /\ child' = [child EXCEPT ![pid].st = "running"]
                        /\ nevents' = nevents - 1
                        /\ action' = TRUE
                        /\ iter' = [iter EXCEPT !.accepted = TRUE,
                                                 !.failed = first,
                                                 !.callerrno = callerrno]
                        /\ sockerr' = sockerr
                        /\ IF nevents - 1 # 0
                           THEN pc' = "forward" /\ r' = r
                           ELSE pc' = "loop" /\ r' = Status(TRUE, sockerr)
    /\ UNCHANGED <<done, sigdisp, setup, mproc, timeout, connleft, bytesleft,
                   nsig, sigleft, eintr, pollin, call, ret, atexit>>

\* The read of sessions.c:174 on descriptor q would not return: q is the
\* read end of a pipe, which is blocking (qualfd.c nbpipe makes only the
\* write end nonblocking), the pipe is empty and its write end is open.
ReadBlocks(q) ==
    q \in openfds /\ child[q].pipe = <<>> /\ child[q].st = "running"

\* passio(i) goes on to passprocerror (sessions.c:200,206).
WillRead ==
    /\ i < nproc
    /\ "POLLERR" \notin fds[i + 2].revents
    /\ "POLLIN" \in fds[i + 2].revents

\* sessions.c:265-275: passio(i) is over with action act; the next worker is
\* served, and after the last one resume returns.
Served(act) ==
    /\ i' = i + 1
    /\ action' = act
    /\ IF i + 1 < nproc
       THEN pc' = "forward" /\ r' = r
       ELSE pc' = "loop" /\ r' = Status(act, sockerr)

\* sessions.c:201-202,208-211: the diagnostic of passio about worker i.
Diagnosed == iter' = [iter EXCEPT !.diag = @ \cup {processes[i + 1].pid}]

\* A variant of Failed in which the failure ends the iteration with ERROR.
Failed_Abort ==
    /\ Diagnosed
    /\ pc' = "loop" /\ r' = "ERROR"
    /\ UNCHANGED <<i, action>>

\* sessions.c:200-204,207-213,267: passio(i) failed: it prints its
\* diagnostic and returns false, and the loop goes on.
Failed == Diagnosed /\ Served(action)

\* sessions.c:266-268 with passio (198-218) and passprocerror up to the call
\* of read (157-173).
Forward ==
    /\ pc = "forward"
    /\ i < nproc
    /\ IF ~WillRead
       THEN /\ UNCHANGED processes
            /\ IF "POLLERR" \in fds[i + 2].revents
               THEN Failed ELSE Served(action) /\ UNCHANGED iter
       ELSE \E reallocok \in BOOLEAN :
              LET g == growebuf(processes[i + 1], reallocok)
              IN  /\ processes' = [processes EXCEPT ![i + 1] = g.proc]
                  /\ IF g.fail
                     THEN Failed
                     ELSE pc' = "read" /\ UNCHANGED <<i, action, r, iter>>
    /\ UNCHANGED <<done, sigdisp, setup, mproc, nproc, cproc, fds, nevents,
                   sockerr, timeout, pending, connleft, bytesleft, pipesleft, child, nsig,
                   sigleft, eintr, openfds, log, pollin, call, ret, atexit>>

\* sessions.c:174-187: the read on the pipe of worker i returns, and
\* passprocerror and passio finish.
Read ==
    /\ pc = "read"
    /\ eintr' = FALSE
    /\ LET proc == processes[i + 1]
           q == fds[i + 2].fd
           n == IF q \in openfds THEN Min(ReadSize, Len(child[q].pipe)) ELSE 0
           data == IF q \in openfds THEN SubSeq(child[q].pipe, 1, n) ELSE <<>>
           t == intake(proc, data)
       IN  \/ \* read fails: EBADF on what is no open descriptor, EINTR while
              \* blocked, or EFAULT on a null buffer
              /\ \/ q \notin openfds
                 \/ eintr /\ ReadBlocks(q)
                 \/ proc.asize = 0 /\ n > 0
              /\ Failed
              /\ UNCHANGED <<processes, child, log>>
           \/ \* read returns n >= 0 bytes
              /\ q \in openfds
              /\ ~ReadBlocks(q)
              /\ ~(proc.asize = 0 /\ n > 0)
              /\ child' = [child EXCEPT ![q].pipe = SubSeq(@, n + 1, Len(@))]
              /\ \/ \* the bytes and the NUL fit the allocation
                    /\ proc.nebuf + n + 1 <= proc.asize
                    /\ processes' = [processes EXCEPT ![i + 1] = t.proc]
                    /\ log' = [log EXCEPT ![proc.pid] = @ \o t.out]
                    /\ iter' = [iter EXCEPT !.emitted = @ \/ t.out # <<>>]
                    /\ Served(TRUE)
                 \/ \* they do not: undefined behaviour, which either goes
                    \* unnoticed or ends the process
                    /\ proc.nebuf + n + 1 > proc.asize
                    /\ \/ /\ proc.asize > 0
                          /\ processes' = [processes EXCEPT ![i + 1] = t.proc]
                          /\ log' = [log EXCEPT ![proc.pid] = @ \o t.out]
                          /\ iter' = [iter EXCEPT !.emitted = @ \/ t.out # <<>>]
                          /\ Served(TRUE)
                       \/ /\ pc' = "crashed"
                          /\ UNCHANGED <<processes, log, action, r, i, iter>>
    /\ UNCHANGED <<done, sigdisp, setup, mproc, nproc, cproc, fds, nevents,
                   sockerr, timeout, pending, connleft, bytesleft, pipesleft, nsig, sigleft,
                   openfds, pollin, call, ret, atexit>>

(***************************************************************************)
(* The functions that run outside the loop, called on their own: Init of   *)
(* SpecPure draws a call, and the action of the function called applies    *)
(* it.                                                                     *)
(***************************************************************************)
\* A call has returned.
Returned(f) == call.f = f /\ ret.f = f

\* Everything but mproc and ret stays as it is.
PureFrame ==
    UNCHANGED <<pc, done, sigdisp, r, setup, nproc, cproc, processes, fds, i,
                nevents, sockerr, action, timeout, pending, connleft, bytesleft,
                pipesleft, child, nsig, sigleft, eintr, openfds, log, pollin,
                iter, call, atexit>>

\* sessions.c:47-53: initmaxproc(val) where sysconf returns openmax.
CallInitmaxproc ==
    /\ call.f = "initmaxproc" /\ ret = NoCall
    /\ mproc' = initmaxproc(call.val, call.openmax)
    /\ ret' = [f |-> "initmaxproc"]
    /\ PureFrame

\* A table of n workers with pids 1..n, each with its own buffer content and
\* its own pipe, and the poll vector aligned with it.
TableOf(n) ==
    [k \in 1..n |-> [pid |-> k, ebuf |-> <<96 + k, NUL>>, asize |-> 129,
                     nebuf |-> 1, cebuf |-> 128]]
SlotsOf(n) ==
    [k \in 1..(n + 1) |->
        IF k = 1 THEN [fd |-> Listener, events |-> {"POLLIN"}, revents |-> {}]
        ELSE [fd |-> RdEnd(k - 1), events |-> {"POLLIN"}, revents |-> {}]]

\* sessions.c:136-155: tryrmproc(p) on a table of n workers, all terminated.
CallTryrmproc ==
    /\ call.f = "tryrmproc" /\ ret = NoCall
    /\ LET t == tryrmproc(TableOf(call.n), SlotsOf(call.n), call.n, call.p)
       IN  ret' = [f |-> "tryrmproc", processes |-> t.processes, fds |-> t.fds,
                   nproc |-> t.nproc]
    /\ UNCHANGED mproc
    /\ PureFrame

\* The descriptors open in the supervisor once k connections have been
\* admitted without failure and none removed.
RECURSIVE AfterAdmissions(_)
AfterAdmissions(k) ==
    IF k = 0 THEN {Listener}
    ELSE admitfds(AfterAdmissions(k - 1), k, nbpipe(k, "ok", TRUE), FALSE, FALSE)

\* The standard streams, open besides openfds; the least number of open
\* descriptors a process may be limited to, and the number of simultaneous
\* connections the manual guarantees under it (serve.tr:201-209).
StdStreams == 3
PosixOpenMax == 20
Portable == 7

\* sessions.c:246,100: the descriptors open in the process at the two calls
\* of an admission that open descriptors (accept: one, pipe: two), with
\* those they open.
atAccept(open, pid) == StdStreams + Cardinality(open \cup {Sock(pid)})
atPipe(open, pid) ==
    StdStreams + Cardinality(open \cup {Sock(pid)} \cup nbpipe(pid, "ok", TRUE).opened)

\* An admission with k workers live under a limit of open descriptors.
CallAdmit ==
    /\ call.f = "admit" /\ ret = NoCall
    /\ LET open == AfterAdmissions(call.k)
           pid == call.k + 1
       IN  ret' = [f |-> "admit",
                   before |-> StdStreams + Cardinality(open),
                   peak |-> atPipe(open, pid),
                   fits |-> atAccept(open, pid) <= call.limit
                            /\ atPipe(open, pid) <= call.limit,
                   after |-> admitfds(open, pid, nbpipe(pid, "ok", TRUE), FALSE, FALSE)]
    /\ UNCHANGED mproc
    /\ PureFrame

\* The type names of the manual and others, as the bytes of the strings.
Name(n) ==
    CASE n = "stream" -> <<115, 116, 114, 101, 97, 109>>
      [] n = "dgram" -> <<100, 103, 114, 97, 109>>
      [] n = "seqpacket" -> <<115, 101, 113, 112, 97, 99, 107, 101, 116>>
      [] n = "raw" -> <<114, 97, 119>>
      [] n = "streams" -> <<115, 116, 114, 101, 97, 109, 115>>
      [] n = "STREAM" -> <<83, 84, 82, 69, 65, 77>>
      [] n = "" -> <<>>

\* strcmp on two strings from index k on (command.c:77-80 compare).
RECURSIVE compare(_, _, _)
compare(a, b, k) ==
    LET ca == IF k <= Len(a) THEN a[k] ELSE NUL
        cb == IF k <= Len(b) THEN b[k] ELSE NUL
    IN  IF ca # cb THEN ca - cb
        ELSE IF ca = NUL THEN 0
        ELSE compare(a, b, k + 1)

\* bsearch of key in base[lo+1..hi]: the C index found, or -1.
RECURSIVE bsearch(_, _, _, _)
bsearch(key, base, lo, hi) ==
    IF lo >= hi THEN 0 - 1
    ELSE LET mid == (lo + hi) \div 2
             c == compare(key, base[mid + 1], 1)
         IN  IF c = 0 THEN mid
             ELSE IF c < 0 THEN bsearch(key, base, lo, mid)
             ELSE bsearch(key, base, mid + 1, hi)

\* command.c:127-145
gettype(tname) ==
    LET s == <<Name("seqpacket"), Name("stream")>>
        v == <<"SOCK_SEQPACKET", "SOCK_STREAM">>
        x == bsearch(tname, s, 0, Len(s))
    IN  IF x < 0 THEN [c |-> "-1", errno |-> "ENOTSUP"]
        ELSE [c |-> v[x + 1], errno |-> ""]

\* command.c:387-394: processopt for -t on the operands in order, from the
\* type and error flag so far (command.c:53,417-419).
RECURSIVE processopts(_, _, _)
processopts(operands, type, error) ==
    IF operands = <<>> THEN [type |-> type, error |-> error]
    ELSE LET g == gettype(Name(Head(operands)))
         IN  IF g.c = "-1" /\ g.errno # ""
             THEN processopts(Tail(operands), type, TRUE)
             ELSE processopts(Tail(operands), g.c, error)

\* What the standard streams of the supervisor are open on, which a child
\* inherits.
Inherited == 300

\* sessions.c:106-119 with cleanupprocesses (55-61) and cmdexec
\* (command.c:439-444): the child of the fork of addproc, with the table
\* procs and f of n workers it inherited, the descriptors open, the socket
\* sock and the array fd of nbpipe.  Its standard streams are the ones it
\* inherited until dup2 succeeds on them; a dup2 or close on what is no
\* open descriptor fails and changes nothing.
childrun(procs, f, n, open, sock, fd, setenvok, execok) ==
    LET open1 == open \ {f[k + 1].fd : k \in 1..n}
        said1 == IF setenvok THEN <<>> ELSE <<[to |-> Inherited, what |-> "setenv"]>>
        in == IF sock \in open1 THEN sock ELSE Inherited
        out == IF sock \in open1 THEN sock ELSE Inherited
        err == IF fd[2] \in open1 THEN fd[2] ELSE Inherited
        open2 == open1 \ {sock, fd[1], fd[2]}
    IN  [nproc |-> 0,
         stdin |-> in, stdout |-> out, stderr |-> err,
         open |-> open2,
         outcome |-> IF execok THEN "exec" ELSE "abort",
         said |-> said1 \o (IF execok THEN <<>>
                            ELSE <<[to |-> err, what |-> "exec"]>>),
         returned |-> FALSE]

\* The child forked at the admission of worker n + 1 into a table of n.
CallChild ==
    /\ call.f = "child" /\ ret = NoCall
    /\ LET pid == call.n + 1
           nb == nbpipe(pid, call.how, TRUE)
           c == childrun(TableOf(call.n), SlotsOf(call.n), call.n,
                         AfterAdmissions(call.n) \cup {Sock(pid)} \cup nb.opened,
                         Sock(pid), nb.fd, call.setenvok, call.execok)
       IN  ret' = [f |-> "child", nproc |-> c.nproc, stdin |-> c.stdin,
                   stdout |-> c.stdout, stderr |-> c.stderr, open |-> c.open,
                   outcome |-> c.outcome, said |-> c.said,
                   returned |-> c.returned]
    /\ UNCHANGED mproc
    /\ PureFrame

\* qualfd.c:208-222: nbpipe called on its own, for the first worker.
CallNbpipe ==
    /\ call.f = "nbpipe" /\ ret = NoCall
    /\ LET n == nbpipe(1, call.how, call.closeok)
       IN  ret' = [f |-> "nbpipe", failed |-> n.ret, opened |-> n.opened,
                   nonblock |-> n.nonblock, errno |-> n.errno]
    /\ UNCHANGED mproc
    /\ PureFrame

\* command.c:404-430: argparse on a command line with the -t options given.
CallArgparse ==
    /\ call.f = "argparse" /\ ret = NoCall
    /\ LET o == processopts(call.t, "SOCK_STREAM", FALSE)
       IN  ret' = [f |-> "argparse", type |-> o.type, usage |-> o.error]
    /\ UNCHANGED mproc
    /\ PureFrame

\* Operands of -a and the default path, as the bytes of the strings.
SP == 32
Text(n) ==
    CASE n = "unix" -> <<117, 110, 105, 120>>
      [] n = "unix " -> <<117, 110, 105, 120, SP>>
      [] n = "unix s" -> <<117, 110, 105, 120, SP, 115>>
      [] n = "unix s s" -> <<117, 110, 105, 120, SP, 115, SP, 115>>
      [] n = "unixs" -> <<117, 110, 105, 120, 115>>
      [] n = "uni" -> <<117, 110, 105>>
      [] n = "inet" -> <<105, 110, 101, 116>>
      [] n = "inet6" -> <<105, 110, 101, 116, 54>>
      [] n = "vsock" -> <<118, 115, 111, 99, 107>>
      [] n = "x25" -> <<120, 50, 53>>
      [] n = "s" -> <<115>>
      [] n = " unix" -> <<SP, 117, 110, 105, 120>>
      [] n = "" -> <<>>
      [] n = "serve.sock" -> <<115, 101, 114, 118, 101, 46, 115, 111, 99, 107>>

\* A null pointer to char, which is no string.
NullString == <<JUNK>>

\* The byte at offset k of the C string s.
CharAt(s, k) == IF k < Len(s) THEN s[k + 1] ELSE NUL

\* command.c:89-97: the lookup table of getdomain (on Linux).
af_lookup ==
    <<[str |-> Text("inet"), af |-> "AF_INET"],
      [str |-> Text("inet6"), af |-> "AF_INET6"],
      [str |-> Text("unix"), af |-> "AF_UNIX"],
      [str |-> Text("vsock"), af |-> "AF_VSOCK"],
      [str |-> Text("x25"), af |-> "AF_X25"]>>

\* command.c:110-111: the two loops that narrow the range [beg, end].
RECURSIVE narrowbeg(_, _, _, _)
narrowbeg(beg, end, offset, c) ==
    IF beg < end /\ CharAt(af_lookup[beg].str, offset) < c
    THEN narrowbeg(beg + 1, end, offset, c)
    ELSE beg
RECURSIVE narrowend(_, _, _, _)
narrowend(beg, end, offset, c) ==
    IF beg < end /\ CharAt(af_lookup[end].str, offset) > c
    THEN narrowend(beg, end - 1, offset, c)
    ELSE end

\* getdomain without the test that the entry found ends where the token
\* ends (command.c:117).
RECURSIVE getdomainloop_NoEndTest(_, _, _, _, _)
getdomainloop_NoEndTest(str, pos, beg, end, offset) ==
    LET ch == CharAt(str, pos)
        c == IF ch = SP THEN NUL ELSE ch
        b == CharAt(af_lookup[beg].str, offset)
        e == CharAt(af_lookup[end].str, offset)
    IN  IF (ch # NUL /\ ch # SP) \/ beg < end
        THEN IF c < b \/ e < c THEN [af |-> "AF_UNSPEC", rem |-> 0]
             ELSE IF b < e
             THEN LET beg2 == narrowbeg(beg, end, offset, c)
                  IN  getdomainloop_NoEndTest(str, pos, beg2,
                                    narrowend(beg2, end, offset, c), offset)
             ELSE IF b = c
             THEN getdomainloop_NoEndTest(str, pos + 1, beg, end, offset + 1)
             ELSE [af |-> "hang", rem |-> 0]
        ELSE [af |-> af_lookup[beg].af,
              rem |-> IF ch = SP THEN pos + 1 ELSE pos]

\* command.c:103-121: the loop of getdomain from position pos of str, and
\* what it returns: the family and the offset in str where the rest begins.
RECURSIVE getdomainloop(_, _, _, _, _)
getdomainloop(str, pos, beg, end, offset) ==
    LET ch == CharAt(str, pos)
        c == IF ch = SP THEN NUL ELSE ch
        b == CharAt(af_lookup[beg].str, offset)
        e == CharAt(af_lookup[end].str, offset)
    IN  IF (ch # NUL /\ ch # SP) \/ beg < end
        THEN IF c < b \/ e < c THEN [af |-> "AF_UNSPEC", rem |-> 0]
             ELSE IF b < e
             THEN LET beg2 == narrowbeg(beg, end, offset, c)
                  IN  getdomainloop(str, pos, beg2,
                                    narrowend(beg2, end, offset, c), offset)
             ELSE IF b = c THEN getdomainloop(str, pos + 1, beg, end, offset + 1)
             ELSE [af |-> "hang", rem |-> 0]
        ELSE IF b = NUL
             THEN [af |-> af_lookup[beg].af,
                   rem |-> IF ch = SP THEN pos + 1 ELSE pos]
             ELSE [af |-> "AF_UNSPEC", rem |-> 0]

\* command.c:85-122
getdomain(str) == getdomainloop(str, 0, 1, Len(af_lookup), 0)

\* The tags of the table, and operands of -a around them: every prefix of a
\* tag, every tag with one byte replaced or one byte appended, every tag
\* followed by a space and more, and every string of at most two bytes.
Tags == {Text(n) : n \in {"inet", "inet6", "unix", "vsock", "x25"}}
DomainChars == {SP, 48, 54, 97, 106, 116, 119, 122}
DomainOperands ==
    UNION {{SubSeq(t, 1, n) : n \in 0..Len(t)} : t \in Tags}
    \cup UNION {{[t EXCEPT ![k] = ch] : k \in 1..Len(t), ch \in DomainChars} :
                t \in Tags}
    \cup {t \o <<ch>> : t \in Tags, ch \in DomainChars}
    \cup {t \o <<SP>> \o rest :
            t \in Tags, rest \in {<<115>>, <<SP, 115>>, <<115, SP, 115>>,
                                  Text("unix")}}
    \cup {<<ch>> : ch \in DomainChars}
    \cup {<<ch, d>> : ch \in DomainChars, d \in DomainChars}

\* Lengths of an unterminated line around the sizes of one read and of the
\* cap of sessions.c:160-163.
Lengths ==
    {0, 1, ReadSize - 1, ReadSize, ReadSize + 1,
     max_cebuf - ReadSize - 1, max_cebuf - ReadSize, max_cebuf - ReadSize + 1,
     max_cebuf - ReadSize + 2, max_cebuf - 1, max_cebuf}

\* The buffers a worker can have: cebuf is 0, or 128 more than the bytes
\* that were buffered when it grew last, and nebuf is within it.
Buffers ==
    {b \in [nebuf : Lengths,
            cebuf : {0} \cup {n + ReadSize :
                                n \in {m \in Lengths : m <= max_cebuf - ReadSize}}] :
        b.nebuf <= b.cebuf}

\* sessions.c:159-172: the head of passprocerror for a worker with nebuf
\* bytes of an unterminated line buffered.  cap tells a failure before
\* the capacity was raised, which is not one of realloc.
CallGrowebuf ==
    /\ call.f = "growebuf" /\ ret = NoCall
    /\ LET g == growebuf([pid |-> 1, ebuf |-> <<>>,
                          asize |-> IF call.cebuf = 0 THEN 0 ELSE call.cebuf + 1,
                          nebuf |-> call.nebuf, cebuf |-> call.cebuf],
                         call.reallocok)
       IN  ret' = [f |-> "growebuf", fail |-> g.fail, errno |-> g.errno,
                   cap |-> g.fail /\ g.proc.cebuf = call.cebuf,
                   nebuf |-> g.proc.nebuf, cebuf |-> g.proc.cebuf]
    /\ UNCHANGED mproc
    /\ PureFrame

\* command.c:85-122: getdomain(str, &rem).
CallGetdomain ==
    /\ call.f = "getdomain" /\ ret = NoCall
    /\ LET g == getdomain(call.a)
       IN  ret' = [f |-> "getdomain", af |-> g.af, rem |-> g.rem]
    /\ UNCHANGED mproc
    /\ PureFrame

\* sizeof addr->sun_path (command.c:254), on Linux.
SunPathSize == 108

\* command.c:245-268: what setaddressunix returns and the address it sets.
setaddressunix(addrstr, mallocok) ==
    IF ~mallocok THEN [ret |-> 0 - 1, family |-> "none", path |-> <<>>]
    ELSE IF addrstr # NullString
    THEN IF Len(addrstr) >= SunPathSize
         THEN [ret |-> 0, family |-> "none", path |-> <<>>]
         ELSE [ret |-> 1, family |-> "AF_UNIX", path |-> addrstr]
    ELSE [ret |-> 1, family |-> "AF_UNIX", path |-> Text("serve.sock")]

\* command.c:339-360: setaddress(addr) for the unix domain and for
\* what names no domain; addr is the operand of -a, never null.
setaddress(addr, mallocok) ==
    LET g == getdomain(addr)
    IN  CASE g.af = "AF_UNIX" ->
               setaddressunix(SubSeq(addr, g.rem + 1, Len(addr)), mallocok)
          [] g.af = "AF_UNSPEC" ->
               [ret |-> 0 - 1, family |-> "none", path |-> <<>>]

\* command.c:367-372: processopt for -a with an operand of the unix domain
\* or of none.
CallSetaddress ==
    /\ call.f = "setaddress" /\ ret = NoCall
    /\ LET a == setaddress(call.a, call.mallocok)
       IN  ret' = [f |-> "setaddress", domain |-> getdomain(call.a).af,
                   exits |-> a.ret < 0, usage |-> a.ret = 0,
                   family |-> a.family, path |-> a.path]
    /\ UNCHANGED mproc
    /\ PureFrame

\* The operands of -a called with: the unix domain and no domain.
UnixOperands ==
    {Text(n) : n \in {"unix", "unix ", "unix s", "unix s s", "unixs", "uni",
                      "s", " unix", ""}}

\* The calls of SpecPure.
TypeNames == {"stream", "dgram", "seqpacket", "raw", "streams", "STREAM", ""}
MaxTable == 4
MaxLive == 14
\* Capacities of the table: the small ones, and those around the halves of
\* the limits of sessions.c:74-79.
Capacities ==
    0..MaxTable
    \cup {MaxProcElems \div 2 - 1, MaxProcElems \div 2, MaxProcElems \div 2 + 1,
          MaxProcElems - 1, MaxProcElems, MaxPollElems, SizeMaxHalf \div 2,
          SizeMaxHalf}

\* sessions.c:70-95: allocproc() with n records in a table of capacity c,
\* whose worker array has room for c + spare records.
CallAllocproc ==
    /\ call.f = "allocproc" /\ ret = NoCall
    /\ LET a == allocproc(call.n, call.c, SlotsOf(call.c), call.realloc1,
                          call.realloc2)
       IN  ret' = [f |-> "allocproc", fail |-> a.fail, cproc |-> a.cproc,
                   fds |-> a.fds, errno |-> a.errno,
                   room |-> allocprocroom(call.n, call.c, call.c + call.spare,
                                          call.realloc1)]
    /\ UNCHANGED mproc
    /\ PureFrame

\* sessions.c:73-82: the capacity allocproc asks for when the table of
\* capacity c is full, and whether it gives up.
CallNewcapacity ==
    /\ call.f = "newcapacity" /\ ret = NoCall
    /\ ret' = [f |-> "newcapacity", ns |-> newcapacity(call.c),
               nomem |-> newcapacity(call.c) <= call.c]
    /\ UNCHANGED mproc
    /\ PureFrame

Calls ==
    {[f |-> "initmaxproc", val |-> v, openmax |-> o] :
        v \in {-1, 0, 1, 2, 17, 18, 19, INT_MAX},
        o \in {-1, 0, 1, 2, 3, 4, 20, 1024}}
    \cup {[f |-> "tryrmproc", n |-> n, p |-> q] :
            n \in 1..MaxTable, q \in 0..(MaxTable - 1)}
    \cup {[f |-> "admit", k |-> k, limit |-> l] : k \in 0..MaxLive, l \in {PosixOpenMax, PosixOpenMax + 1}}
    \cup {[f |-> "argparse", t |-> t] :
            t \in {<<>>} \cup {<<n>> : n \in TypeNames}
                 \cup {<<"seqpacket", n>> : n \in TypeNames}}
    \cup {[f |-> "child", n |-> n, how |-> h, setenvok |-> v, execok |-> x] :
            n \in 0..2, h \in PipeOutcomes, v \in BOOLEAN, x \in BOOLEAN}
    \cup {[f |-> "nbpipe", how |-> h, closeok |-> c] :
            h \in PipeOutcomes, c \in BOOLEAN}
    \cup {[f |-> "setaddress", a |-> a, mallocok |-> m] :
            a \in UnixOperands, m \in BOOLEAN}
    \cup UNION {{[f |-> "allocproc", n |-> n, c |-> c, spare |-> x,
                   realloc1 |-> a, realloc2 |-> b] :
                   n \in 0..c, x \in 0..1, a \in BOOLEAN, b \in BOOLEAN} :
                 c \in 0..MaxTable}
    \cup {[f |-> "newcapacity", c |-> c] : c \in Capacities}
    \cup {[f |-> "getdomain", a |-> a] : a \in DomainOperands}
    \cup {[f |-> "growebuf", nebuf |-> b.nebuf, cebuf |-> b.cebuf,
            reallocok |-> x] : b \in Buffers, x \in BOOLEAN}

InitPure ==
    /\ Start(INT_MAX, 0, 0, 0, 0)
    /\ call \in {c \in Calls : c.f = "tryrmproc" => c.p < c.n}

NextPure ==
    \/ CallInitmaxproc
    \/ CallTryrmproc
    \/ CallAdmit
    \/ CallArgparse
    \/ CallSetaddress
    \/ CallNbpipe
    \/ CallChild
    \/ CallAllocproc
    \/ CallNewcapacity
    \/ CallGetdomain
    \/ CallGrowebuf

SpecPure == InitPure /\ [][NextPure]_vars

Next ==
    \/ Loop \/ Reap \/ Poll \/ Accept \/ Forward \/ Read
    \/ Connect
    \/ \E p \in Pids, b \in FewBytes : Write(p, b)
    \/ \E p \in Pids : Exit(p)

Spec == Init /\ [][Next]_vars

SpecAdmit == InitAdmit /\ [][Next]_vars

NextSig ==
    \/ Loop \/ Reap \/ Poll \/ Accept \/ Forward \/ Read
    \/ Connect
    \/ Sigint
    \/ \E p \in Pids, b \in FewBytes : Write(p, b)
    \/ \E p \in Pids : Exit(p)

SpecSig == InitSig /\ [][NextSig]_vars

SpecSigCap == InitSigCap /\ [][NextSig]_vars

NextLines ==
    \/ Loop \/ Reap \/ Poll \/ Accept \/ Forward \/ Read
    \/ Connect
    \/ \E p \in Pids, b \in Bytes : Write(p, b)
    \/ \E p \in Pids : Exit(p)

SpecLines == InitLines /\ [][NextLines]_vars

(***************************************************************************)
(* What the supervisor printed about a worker, and what the worker wrote.  *)
(***************************************************************************)
\* The texts of the '<pid>: <text>' lines printed for p on channel ch.
RECURSIVE LineTexts(_, _)
LineTexts(entries, ch) ==
    IF entries = <<>> THEN <<>>
    ELSE (IF Head(entries).kind = "line" /\ Head(entries).ch = ch
          THEN <<Head(entries).text>> ELSE <<>>)
         \o LineTexts(Tail(entries), ch)

\* The segments of the byte stream w that end at a newline, in order; cur is
\* the segment being collected.
RECURSIVE Segments(_, _)
Segments(w, cur) ==
    IF w = <<>> THEN <<>>
    ELSE IF Head(w) = LF THEN <<cur>> \o Segments(Tail(w), <<>>)
    ELSE Segments(Tail(w), Append(cur, Head(w)))

\* Worker p is in the table.
InTable(p) == \E k \in 1..nproc : processes[k].pid = p

\* The positions of the entries of kind kd in what was printed about p.
Positions(p, kd) == {k \in 1..Len(log[p]) : log[p][k].kind = kd}

(***************************************************************************)
(* C1.  For any byte sequence a worker wrote to its stderr, once the       *)
(* supervisor has read all of it and while the worker is still in the      *)
(* table, stdout holds for that worker exactly one line per newline of     *)
(* the stream, and the lines are the segments between the newlines, in     *)
(* order.                                                                  *)
(***************************************************************************)
C1_LinesAreSegments ==
    \A p \in Pids :
        (InTable(p) /\ child[p].pipe = <<>>)
            => LineTexts(log[p], "stdout") = Segments(child[p].written, <<>>)

(***************************************************************************)
(* C2.  A reaped worker whose stderr stream did not end in a newline has   *)
(* exactly one residual line on the supervisor's stderr, printed when it   *)
(* was reaped (just before its exit message).                              *)
(***************************************************************************)
C2_ResidualLine ==
    \A p \in Pids :
        (/\ child[p].st = "reaped"
         /\ child[p].written # <<>>
         /\ child[p].written[Len(child[p].written)] # LF)
            => /\ Len(LineTexts(log[p], "stderr")) = 1
               /\ Len(log[p]) >= 2
               /\ log[p][Len(log[p]) - 1].ch = "stderr"

(***************************************************************************)
(* C3.  In what the supervisor prints about a worker, the creation message *)
(* is the first entry and the only one of its kind, and the exit message,  *)
(* if there is one, is the last entry: every line tagged with the worker   *)
(* lies between the two, and nothing follows the exit message.             *)
(***************************************************************************)
C3_CreatedFirstExitedLast ==
    \A p \in Pids :
        log[p] # <<>> =>
            /\ Positions(p, "created") = {1}
            /\ Positions(p, "exited") \subseteq {Len(log[p])}

\* A worker was created, had a line forwarded and a residual line flushed,
\* and was reaped.
C3_Witness ==
    \E p \in Pids :
        /\ Len(log[p]) >= 4
        /\ log[p][Len(log[p])].kind = "exited"
        /\ LineTexts(log[p], "stdout") # <<>>
        /\ LineTexts(log[p], "stderr") # <<>>

(***************************************************************************)
(* C4.  As claimed, for whatever cap: after every iteration of resume the  *)
(* number of live workers is at most mproc (stated for the iterations that *)
(* leave workers in the table, so that an admission has happened).         *)
(***************************************************************************)
C4_AnyCap == (pc = "loop" /\ r # "" /\ nproc > 0) => nproc <= mproc

(***************************************************************************)
(* C4, amended.  For every cap mproc >= 0 the number of live workers never *)
(* exceeds mproc.  For every cap, a worker is admitted only by the accept  *)
(* step of an iteration whose poll was chosen with nproc < mproc as the    *)
(* code compares them (mproc converted to unsigned), and only if no worker *)
(* was admitted in that iteration before: at most one per iteration.       *)
(***************************************************************************)
C4_AdmitsBelowCap ==
    /\ [](mproc >= 0 => nproc <= mproc)
    /\ [](pc = "accept" => timeout = InfTimeout /\ BelowCap(nproc, mproc) /\ ~action)
    /\ [][nproc' > nproc =>
            /\ pc = "accept"
            /\ nproc' = nproc + 1
            /\ (mproc >= 0 => nproc < mproc)
            /\ ~action /\ action'
            /\ pc' # "accept"]_vars

\* The table is full under a cap of two while a connection waits: the
\* iteration polls the workers only.
C4_Witness ==
    /\ mproc = 2 /\ nproc = 2
    /\ pending > 0
    /\ pc = "poll" /\ timeout = CapTimeout

(***************************************************************************)
(* C5.  While nproc = mproc the iteration polls the worker descriptors     *)
(* only, with the bounded timeout, and does not reach accept; and once a   *)
(* worker of the full table has exited while a connection is pending, the  *)
(* supervisor is not held in a read that cannot return (it goes on to the  *)
(* iteration that reaps the worker and admits the connection).             *)
(***************************************************************************)
C5_AdmissionResumes ==
    /\ (pc \in {"poll", "accept"} /\ nproc = mproc)
           => (pc = "poll" /\ timeout = CapTimeout)
    /\ (/\ nproc = mproc
        /\ pending > 0
        /\ \E k \in 1..nproc : child[processes[k].pid].st = "zombie")
           => ~(pc = "read" /\ ReadBlocks(fds[i + 2].fd) /\ ~eintr)

(***************************************************************************)
(* C6.  Once the first SIGINT has been handled, the supervisor is not      *)
(* waiting in a call that only a further connection, worker event or       *)
(* signal can end: it is not inside the poll with infinite timeout with    *)
(* nothing to report and no handler run to interrupt it.                   *)
(***************************************************************************)
C6_NoHangAfterSigint ==
    (done = 1 /\ pc = "poll") => (PollReady \/ eintr)

(***************************************************************************)
(* C7.  The handler is one-shot.  Before any SIGINT the handler is         *)
(* installed and the flag is clear; after the first the flag is set,       *)
(* SIGINT is at its default disposition and the process is not killed;     *)
(* a second SIGINT before exit kills the process.                          *)
(***************************************************************************)
C7_OneShotHandler ==
    /\ nsig = 0 => (sigdisp = "handler" /\ done = 0)
    /\ nsig = 1 => (sigdisp = "default" /\ done = 1 /\ pc # "killed")
    /\ nsig >= 2 => (nsig = 2 /\ pc = "killed" /\ done = 1)

\* A second SIGINT has arrived while workers were running.
C7_Witness == nsig = 2 /\ pc = "killed" /\ nproc > 0

(***************************************************************************)
(* C8.  When accept_remote fails, resume returns SOME if errno is          *)
(* ECONNABORTED, EINTR or EMFILE and ERROR for every other errno; the      *)
(* failing step leaves the table as it was and, if there are workers,      *)
(* goes on to forward their stderr in the same iteration; the listener     *)
(* stays in slot 0 of the poll vector, so later iterations accept again.   *)
(***************************************************************************)
C8_AcceptFailure ==
    /\ []((pc = "loop" /\ sockerr # "")
            => r = (IF sockerr \in {"ECONNABORTED", "EINTR", "EMFILE"}
                    THEN "SOME" ELSE "ERROR"))
    /\ [](setup => (fds[1].fd = Listener /\ fds[1].events = {"POLLIN"}))
    /\ [][(pc = "accept" /\ sockerr' # "") =>
            /\ nproc' = nproc /\ processes' = processes /\ fds' = fds
            /\ child' = child /\ log' = log
            /\ (nproc > 0 => (pc' = "forward" /\ i' = 0))]_vars

\* An iteration in which accept failed with EMFILE has forwarded a line of
\* an existing worker and returned.
C8_Witness ==
    /\ pc = "loop" /\ sockerr = "EMFILE" /\ r = "SOME"
    /\ action
    /\ \E p \in Pids : InTable(p) /\ LineTexts(log[p], "stdout") # <<>>

(***************************************************************************)
(* C9.  The supervisor calls read on the pipe of a worker only if the poll *)
(* of the same iteration reported POLLIN for that worker.                  *)
(***************************************************************************)
C9_ReadOnlyAfterPollin ==
    pc = "read" => processes[i + 1].pid \in pollin

(***************************************************************************)
(* C10.  As claimed: for every live worker nebuf <= cebuf <= 65534 and    *)
(* the byte at ebuf[nebuf] is NUL.                                         *)
(***************************************************************************)
C10_AlwaysTerminated ==
    \A k \in 1..nproc :
        /\ processes[k].nebuf <= processes[k].cebuf
        /\ processes[k].cebuf <= max_cebuf
        /\ Peek(processes[k].ebuf, processes[k].nebuf) = NUL

(***************************************************************************)
(* C10, amended.  For every live worker nebuf <= cebuf <= 65534; ebuf is   *)
(* null until a growth succeeds and holds no nebuf bytes before a read     *)
(* has stored into it; from the first completed read on, the byte at       *)
(* ebuf[nebuf] is NUL.                                                     *)
(***************************************************************************)
C10_TerminatedOnceRead ==
    \A k \in 1..nproc :
        /\ processes[k].nebuf <= processes[k].cebuf
        /\ processes[k].cebuf <= max_cebuf
        /\ processes[k].asize = 0 => processes[k].ebuf = <<>>
        /\ processes[k].ebuf = <<>> => processes[k].nebuf = 0
        /\ processes[k].ebuf # <<>>
              => Peek(processes[k].ebuf, processes[k].nebuf) = NUL

\* A worker has had a line emitted and keeps the bytes after it, terminated.
C10_Witness ==
    \E k \in 1..nproc :
        /\ processes[k].nebuf > 0
        /\ Peek(processes[k].ebuf, processes[k].nebuf) = NUL
        /\ LineTexts(log[processes[k].pid], "stdout") # <<>>

\* The read ends of the pipes of the workers in the table.
ReadEnds == {RdEnd(processes[k].pid) : k \in 1..nproc}

\* C11: between two iterations of resume the descriptors open in the
\* supervisor, standard streams apart, are the listener and the read end of
\* the pipe of each worker in the table, and nothing else.
C11_OpenDescriptors == pc = "loop" => openfds = {Listener} \cup ReadEnds

\* C12: an iteration that returns SOME or NONE returns SOME exactly when it
\* accepted a connection, reaped a worker or emitted a line of a worker.
C12_SomeIffProgress ==
    (pc = "loop" /\ r \in {"SOME", "NONE"})
        => (r = "SOME" <=> (iter.accepted \/ iter.reaped \/ iter.emitted))

\* The pids of the table, in the order of the table.
TablePids == [k \in 1..nproc |-> processes[k].pid]

C14_ErrorsDoNotEndLoop ==
    [][/\ (pc = "loop" /\ pc' = "exited") => done # 0
       /\ (pc = "loop" /\ r = "ERROR") => Driver(r).perror
       /\ (pc = "loop" /\ r = "ERROR" /\ done = 0 /\ pc' # pc) => pc' = "reap"
      ]_vars

\* resume returned ERROR for an accept failure that is propagated, with a
\* worker live and the flag not set.
C14_Witness ==
    pc = "loop" /\ r = "ERROR" /\ sockerr = "ENOMEM" /\ done = 0 /\ nproc > 0

\* C15 as stated: whatever was requested and whatever sysconf returned, the
\* cap initmaxproc sets is the smaller of the request and sysconf - 2.
C15_CapIsMin ==
    Returned("initmaxproc") => mproc = Min(call.val, call.openmax - 2)

\* C15 amended: the cap is that minimum when sysconf - 2 is positive, and
\* the request itself when it is not.
C15_CapIsMinWhenPositive ==
    Returned("initmaxproc") =>
        mproc = IF call.openmax - 2 > 0
                THEN Min(call.val, call.openmax - 2)
                ELSE call.val

\* The default request under a limit of 20 descriptors gave a cap of 18.
C15_Witness ==
    /\ Returned("initmaxproc")
    /\ call.val = INT_MAX /\ call.openmax = 20
    /\ mproc = 18

\* The workers of a table of n records: each record with the descriptor of
\* its poll slot.
Entries(procs, f, n) ==
    {[pid |-> procs[k].pid, ebuf |-> procs[k].ebuf, fd |-> f[k + 1].fd] : k \in 1..n}

\* C16: tryrmproc(p) on a table of n workers leaves n - 1 records, which
\* with their poll slots are the workers of the table other than the one
\* at p, each once.
C16_SwapWithLast ==
    Returned("tryrmproc") =>
        LET n == call.n
            before == Entries(TableOf(n), SlotsOf(n), n)
            gone == [pid |-> TableOf(n)[call.p + 1].pid,
                     ebuf |-> TableOf(n)[call.p + 1].ebuf,
                     fd |-> SlotsOf(n)[call.p + 2].fd]
            after == Entries(ret.processes, ret.fds, ret.nproc)
        IN  /\ ret.nproc = n - 1
            /\ Len(ret.processes) = n - 1
            /\ after = before \ {gone}
            /\ Cardinality(after) = n - 1
            /\ ret.fds[1].fd = Listener

\* The first of the largest table was removed and the last took its place.
C16_Witness ==
    /\ Returned("tryrmproc")
    /\ call.n = MaxTable /\ call.p = 0
    /\ ret.nproc = MaxTable - 1
    /\ ret.processes[1].pid = MaxTable

\* C17: once the poll vector exists, its first slot is the listener, polled
\* for POLLIN, and the slot after it for each record of the table holds the
\* open read end of the pipe of that record's worker, polled for POLLIN
\* alone.
C17_SlotsAligned ==
    setup =>
        /\ fds[1].fd = Listener /\ fds[1].events = {"POLLIN"}
        /\ \A k \in 1..nproc :
             /\ fds[k + 1].fd = RdEnd(processes[k].pid)
             /\ fds[k + 1].fd \in openfds
             /\ fds[k + 1].events = {"POLLIN"}

\* C18: a step of resume with no worker in the table and no connection
\* pending, before and after, emits nothing, leaves the table, its capacity
\* and the open descriptors as they are, changes the poll vector only to
\* set it up, and does not return SOME.
C18_IdleIsNoOp ==
    [][(/\ nproc = 0 /\ pending = 0 /\ pending' = 0
        /\ pc \in {"loop", "reap", "poll"}) =>
            /\ log' = log
            /\ nproc' = 0
            /\ processes' = processes
            /\ cproc' = cproc
            /\ openfds' = openfds
            /\ setup => (setup' /\ fds' = fds)
            /\ r' # "SOME"
      ]_vars

\* An iteration that found no worker and no connection has returned NONE:
\* the cap is zero, so its poll had a timeout, and nothing ever connected.
C18_Witness ==
    /\ pc = "loop" /\ r = "NONE"
    /\ setup /\ nproc = 0 /\ pending = 0
    /\ connleft = MaxConn
    /\ log = [p \in Pids |-> <<>>]

\* C19: under a limit of 20 open descriptors, with the standard streams and
\* the listener open and one descriptor held per live worker, an admission
\* with fewer than 7 workers live stays within the limit at the accept and
\* at the creation of the pipe.
C19_SevenFit ==
    (Returned("admit") /\ call.limit = PosixOpenMax /\ call.k < Portable) =>
        /\ ret.before = StdStreams + 1 + call.k
        /\ ret.peak <= PosixOpenMax
        /\ ret.fits
        /\ Cardinality(ret.after) = 1 + call.k + 1

\* The seventh connection was admitted under the limit of 20: thirteen
\* descriptors were open at the most, and eleven once it was admitted.
C19_Witness ==
    /\ Returned("admit")
    /\ call.limit = PosixOpenMax /\ call.k = Portable - 1
    /\ ret.fits /\ ret.peak = 13
    /\ StdStreams + Cardinality(ret.after) = 11

\* The socket type the manual gives for a type name (serve.tr:67-85).
ManualType(n) ==
    CASE n = "stream" -> "SOCK_STREAM"
      [] n = "dgram" -> "SOCK_DGRAM"
      [] n = "seqpacket" -> "SOCK_SEQPACKET"
      [] OTHER -> "none"

\* C20: a command line is a usage error exactly when a -t operand is none
\* of stream, dgram and seqpacket; otherwise the type is that of the last
\* -t operand, and SOCK_STREAM without -t.
C20_TypeOption ==
    Returned("argparse") =>
        /\ ret.usage <=> (\E k \in 1..Len(call.t) : ManualType(call.t[k]) = "none")
        /\ ~ret.usage =>
             ret.type = IF call.t = <<>> THEN "SOCK_STREAM"
                        ELSE ManualType(call.t[Len(call.t)])

\* C21: the operand unix alone, with no path after it, makes the listener
\* address the Unix socket path serve.sock.
C21_DefaultUnixPath ==
    (Returned("setaddress") /\ call.a = Text("unix") /\ call.mallocok) =>
        /\ ret.family = "AF_UNIX"
        /\ ret.path = Text("serve.sock")
        /\ ~ret.usage /\ ~ret.exits

\* C22: every turn of the sweep probes one worker and brings the sweep
\* nearer its end; when the sweep ends it has probed every worker that was
\* in the table when it began, each once, and none of those that had
\* terminated by then is still in the table.
C22_SweepProbesOnce ==
    [][/\ (pc = "reap" /\ pc' = "reap" /\ iter'.probed # iter.probed) =>
            /\ Len(iter'.probed) = Len(iter.probed) + 1
            /\ nproc' - i' < nproc - i
       /\ (pc = "reap" /\ pc' = "poll") =>
            /\ {iter.probed[k] : k \in 1..Len(iter.probed)} = iter.start
            /\ Len(iter.probed) = Cardinality(iter.start)
            /\ \A k \in 1..nproc : processes[k].pid \notin iter.dead
            /\ {processes[k].pid : k \in 1..nproc} \subseteq iter.start
      ]_vars

\* A sweep over workers 1, 2, 3, of which 1 and 3 had terminated: worker 1
\* was removed, worker 3 came into its place and was probed and removed
\* next, then worker 2 was probed and stays.
C22_Witness ==
    /\ pc = "reap" /\ i = nproc
    /\ iter.start = {1, 2, 3} /\ iter.dead = {1, 3}
    /\ iter.probed = <<1, 3, 2>>
    /\ nproc = 1 /\ processes[1].pid = 2

\* The bytes of a worker the entries printed about it carry, in order: the
\* text of each line, with the newline that ended it on stdout.
RECURSIVE Emitted(_)
Emitted(entries) ==
    IF entries = <<>> THEN <<>>
    ELSE (IF Head(entries).kind # "line" THEN <<>>
          ELSE IF Head(entries).ch = "stdout" THEN Append(Head(entries).text, LF)
          ELSE Head(entries).text)
         \o Emitted(Tail(entries))

\* C23: once the exit of a worker is reported, the lines printed about it,
\* the residual line included, carry every byte it wrote to its stderr.
C23_NoByteLost ==
    \A p \in Pids :
        child[p].st = "reaped" => Emitted(log[p]) = child[p].written

\* C24: an iteration whose poll failed has returned NONE if the poll was
\* interrupted and ERROR otherwise, whichever poll it was, and has accepted
\* no connection and read no pipe; nothing of the iteration follows the
\* failure.
C24_PollFailure ==
    iter.poll # "" =>
        /\ pc \in {"loop", "exited", "killed"}
        /\ pc = "loop" => r = (IF iter.poll = "EINTR" THEN "NONE" ELSE "ERROR")
        /\ ~iter.accepted /\ ~iter.emitted /\ iter.diag = {}
        /\ ~action /\ sockerr = ""

\* The poll of the workers alone, at the cap, was interrupted by a signal
\* and the iteration returned NONE.
C24_Witness ==
    /\ pc = "loop" /\ r = "NONE"
    /\ iter.poll = "EINTR"
    /\ timeout = CapTimeout /\ nproc = mproc

\* C25: a step in which a call of addproc fails after a connection was
\* accepted ends the iteration with ERROR and with the errno of that call,
\* and leaves the number of workers and their records as they were.
C25_AddWorkerFailure ==
    [][(pc = "accept" /\ iter'.failed # "") =>
            /\ pc' = "loop" /\ r' = "ERROR"
            /\ iter'.errno = iter'.callerrno
            /\ nproc' = nproc
            /\ processes' = processes
      ]_vars

\* C26: nbpipe returns false with both ends of a pipe open, the write end
\* alone nonblocking, or true with no descriptor open; when it was fcntl on
\* the write end that failed, errno on return is the errno of fcntl
\* whatever the closes made of it.
C26_PipeOrNothing ==
    Returned("nbpipe") =>
        IF ret.failed
        THEN /\ ret.opened = {} /\ ret.nonblock = {}
             /\ call.how = "fcntl" => ret.errno = "EPERM"
        ELSE /\ ret.opened = {RdEnd(1), WrEnd(1)}
             /\ ret.nonblock = {WrEnd(1)}
             /\ call.how = "ok"

\* fcntl failed on the write end and a close failed after it: nothing is
\* open and errno is that of fcntl.
C26_Witness ==
    /\ Returned("nbpipe")
    /\ call.how = "fcntl" /\ ~call.closeok
    /\ ret.failed /\ ret.opened = {} /\ ret.errno = "EPERM"

\* C27: the child of a fork has no worker in its table and none of the
\* descriptors the supervisor held open but the listener, its stdin and
\* stdout are the socket and its stderr the write end of the pipe; it
\* becomes the command or, if exec returned, writes its diagnostic to that
\* stderr and aborts, and it never returns from addproc.
C27_ChildBecomesCommand ==
    Returned("child") =>
        /\ ret.nproc = 0
        /\ ret.open = {Listener}
        /\ ret.stdin = Sock(call.n + 1) /\ ret.stdout = Sock(call.n + 1)
        /\ ret.stderr = WrEnd(call.n + 1)
        /\ ret.outcome = (IF call.execok THEN "exec" ELSE "abort")
        /\ ~call.execok => ret.said[Len(ret.said)] =
                              [to |-> WrEnd(call.n + 1), what |-> "exec"]
        /\ ~ret.returned

\* The supervisor running, or one of the functions called on a table of any
\* capacity: the table as resume grows it, and allocproc on capacities no
\* run of the bounded supervisor gets to.
InitCapacity == Init \/ InitPure
NextCapacity == Next \/ NextPure
SpecCapacity == InitCapacity /\ [][NextCapacity]_vars

\* The table is within its capacity and, from the setup on, the poll vector
\* has a slot for the listener and one for each record of the capacity.
TableFits ==
    /\ nproc <= cproc
    /\ Len(processes) = nproc
    /\ setup => Len(fds) >= cproc + 1

\* allocproc grew the table only when it was full, left room for the
\* capacity in both arrays and room for one more record when it succeeded;
\* when it failed it reported it and left the capacity and the poll vector
\* as they were.
AllocprocKeeps ==
    Returned("allocproc") =>
        /\ ret.cproc # call.c =>
              /\ call.n = call.c /\ ~ret.fail
              /\ ret.cproc = newcapacity(call.c)
        /\ ret.room >= ret.cproc
        /\ Len(ret.fds) >= ret.cproc + 1
        /\ \A k \in 1..(call.c + 1) : ret.fds[k] = SlotsOf(call.c)[k]
        /\ ~ret.fail => call.n < ret.cproc
        /\ ret.fail <=> (call.n = call.c /\ (~call.realloc1 \/ ~call.realloc2))
        /\ ret.fail =>
              /\ ret.cproc = call.c
              /\ ret.fds = SlotsOf(call.c)
              /\ ret.errno = "ENOMEM"

\* The largest capacity whose two arrays have sizes size_t can hold
\* (sessions.c:76-79).
LargestCapacity ==
    IF MaxProcElems < MaxPollElems THEN MaxProcElems ELSE MaxPollElems

C29_SetupOnce ==
    [][/\ setup =>
             /\ atexit = <<"cleanup">>
             /\ Len(fds) >= 1
             /\ fds[1].fd = Listener /\ fds[1].events = {"POLLIN"}
       /\ ~setup => (atexit = <<>> /\ fds = <<>>)
       /\ (setup' # setup \/ atexit' # atexit) =>
             /\ pc = "loop" /\ ~LoopLeft(done)
             /\ ~setup /\ setup'
             /\ atexit' = <<"cleanup">>
             /\ fds' = <<[fd |-> Listener, events |-> {"POLLIN"},
                          revents |-> Uninit]>>
             /\ pc' = "reap"
       /\ (/\ pc = "loop" /\ ~LoopLeft(done) /\ ~setup /\ pc' # "reap"
           /\ UNCHANGED <<pending, connleft, child, bytesleft, nsig, sigleft>>) =>
             /\ pc' = "loop" /\ r' = "ERROR"
             /\ ~setup' /\ atexit' = <<>> /\ fds' = <<>>
       /\ (pc = "loop" /\ ~LoopLeft(done) /\ setup /\ pc' = "reap") =>
             (fds' = fds /\ atexit' = atexit)
      ]_vars

\* Two workers are in the table, so resume ran at least twice after the
\* call that did the setup, and the teardown is registered once.
C29_Witness ==
    /\ setup /\ nproc = 2
    /\ atexit = <<"cleanup">>
    /\ fds[1].fd = Listener

\* The read the supervisor is in returns zero bytes: its descriptor is open,
\* the pipe is empty and the worker has ended.
AtEof ==
    /\ pc = "read"
    /\ fds[i + 2].fd \in openfds
    /\ child[fds[i + 2].fd].pipe = <<>>
    /\ ~ReadBlocks(fds[i + 2].fd)

\* C30: a read of zero bytes on a worker's pipe is not an error and emits
\* nothing: no diagnostic, nothing printed, the worker's nebuf and its
\* buffered bytes are as before, the forwarding goes on with the next
\* worker, and the reaper would flush what it would have flushed before.
C30_EofKeepsBuffer ==
    [][(AtEof /\ pc' # "read") =>
          /\ pc' \in {"forward", "loop"}
          /\ i' = i + 1
          /\ iter'.diag = iter.diag
          /\ log' = log
          /\ processes'[i + 1].nebuf = processes[i + 1].nebuf
          /\ \A k \in 1..processes[i + 1].nebuf :
                processes'[i + 1].ebuf[k] = processes[i + 1].ebuf[k]
          /\ tryrmproc(processes', fds', nproc', i).out =
                tryrmproc(processes, fds, nproc, i).out
      ]_vars

\* The offset of the first space of str, Len(str) if it has none.
RECURSIVE TokenEnd(_, _)
TokenEnd(str, k) ==
    IF k >= Len(str) \/ str[k + 1] = SP THEN k ELSE TokenEnd(str, k + 1)

\* C34: for every -a string getdomain terminates; it returns the family
\* whose tag equals the first space-delimited token exactly, with the
\* remainder just after the separating space (at the end of the string if
\* there is none), and AF_UNSPEC for every other first token, the empty one
\* and the proper prefixes and the extensions of a tag included.
C34_GetdomainExact ==
    Returned("getdomain") =>
        LET e == TokenEnd(call.a, 0)
            token == SubSeq(call.a, 1, e)
            hits == {k \in 1..Len(af_lookup) : af_lookup[k].str = token}
        IN  /\ ret.af # "hang"
            /\ hits = {} => ret.af = "AF_UNSPEC"
            /\ \A k \in hits :
                  /\ ret.af = af_lookup[k].af
                  /\ ret.rem = (IF e < Len(call.a) THEN e + 1 ELSE e)

\* inet6 followed by a space and more is AF_INET6, not AF_INET, with the
\* rest beginning after the space.
C34_Witness ==
    /\ Returned("getdomain")
    /\ call.a = Text("inet6") \o <<SP, 115, SP, 115>>
    /\ ret.af = "AF_INET6" /\ ret.rem = 6

C33_FailureKeepsBuffer ==
    [][/\ (/\ pc = "read" \/ (pc = "forward" /\ WillRead)
           /\ iter'.diag # iter.diag) =>
              processes' = processes
       /\ \A k \in 1..nproc :
              IF processes[k].asize = 0 THEN processes[k].cebuf = 0
              ELSE processes[k].cebuf + 1 <= processes[k].asize
       /\ pc' # "crashed"
      ]_vars

\* The elements of a sequence, and whether none of them occurs twice.
Range(s) == {s[k] : k \in 1..Len(s)}
NoRepeat(s) == Cardinality(Range(s)) = Len(s)

\* C31: over any sequence of admissions, removals and the teardown at exit,
\* every read end of a worker's pipe is closed exactly once and every
\* worker's buffer freed exactly once.  While the supervisor runs, the read
\* ends open are those of the workers in the table, one worker to a record
\* and its own read end in its slot; a read end is closed only by the reaper
\* removing its worker, which closes that one and nothing else, or by the
\* teardown, which closes and frees each worker still in the table once;
\* and after the teardown nothing is open and nothing is touched again.
C31_ClosedOnce ==
    [][/\ Alive =>
             /\ NoRepeat(TablePids)
             /\ \A k \in 1..nproc :
                   /\ fds[k + 1].fd = RdEnd(processes[k].pid)
                   /\ fds[k + 1].fd \in openfds
             /\ {RdEnd(p) : p \in Pids} \cap openfds = ReadEnds
       /\ (pc = "reap" /\ nproc' < nproc) =>
             LET t == tryrmproc(processes, fds, nproc, i)
             IN  /\ t.closed = RdEnd(processes[i + 1].pid)
                 /\ t.closed \in openfds
                 /\ openfds' = openfds \ {t.closed}
                 /\ Range(TablePids') = Range(TablePids) \ {processes[i + 1].pid}
       /\ (pc = "loop" /\ pc' = "exited") =>
             LET x == exit(atexit, processes, fds, nproc, openfds)
             IN  /\ NoRepeat(x.closed) /\ NoRepeat(x.freed)
                 /\ Range(x.closed) \subseteq openfds
                 /\ Range(x.closed) \ {Listener} = ReadEnds
                 /\ Range(x.freed) = Range(TablePids)
                 /\ openfds' = {}
       /\ pc = "exited" =>
             UNCHANGED <<pc, openfds, processes, fds, nproc, cproc, log, atexit>>
       /\ \A p \in Pids :
             /\ (RdEnd(p) \in openfds /\ RdEnd(p) \notin openfds') =>
                   \/ pc = "loop" /\ pc' = "exited"
                   \/ /\ pc = "reap" /\ nproc' < nproc
                      /\ processes[i + 1].pid = p
             /\ (RdEnd(p) \notin openfds /\ RdEnd(p) \in openfds') =>
                   (pc = "accept" /\ child[p].st = "unborn")
      ]_vars

====
